---- MODULE Spec2Model ----
(***************************************************************************)
(* HEIC/HEIF batch converter (heic_batch_converter.py, the basic variant,  *)
(* and heic_converter_app.py, the diagnostic-logging variant).             *)
(*                                                                         *)
(* The model covers the file collector, the output path resolver, the      *)
(* worker thread ConverterThread.run, what it does for one file (decode,   *)
(* orientation, the arguments of im.save) and the App operations that      *)
(* share state with it (the file list, the start button, root.after).      *)
(* Paths follow pathlib's POSIX flavour: equality is lexical and           *)
(* case-sensitive, a file name is a sequence of tokens whose last token is *)
(* its extension.                                                          *)
(***************************************************************************)
EXTENDS Integers, Sequences, FiniteSets, TLC

VARIABLES
    variant,         \* which source file is running
    picks,           \* the paths the user has at hand to add
    files,           \* App.files, the list object ConverterThread.files aliases
    out_dir,         \* App.out_dir
    start_btn,       \* state of App.start_btn
    progress_value,  \* App.progress value
    progress_max,    \* App.progress maximum
    fs,              \* paths that exist on disk besides the source tree
    pc,              \* ConverterThread: "idle", "running", "finished", "crashed"
    it,              \* index of the list iterator of `for src in self.files`
    count,           \* local variable count of run
    total,           \* local variable total of run
    cfg,             \* ConverterThread fields out_dir, fmt
    request,         \* content of App.files when start launched the thread
    events,          \* callbacks the worker has made, in order (this batch)
    applied,         \* how many of them the Tk main loop has run
    overwrote,       \* im.save was called on a path that existed
    batches,         \* number of batches started
    call,            \* arguments of a direct call of a utility function
    rets             \* what such calls returned, in order

vars == <<variant, picks, files, out_dir, start_btn, progress_value, progress_max, fs,
          pc, it, count, total, cfg, request, events, applied, overwrote,
          batches, call, rets>>

appVars == <<variant, picks, files, out_dir, start_btn, progress_value, progress_max,
             pc, it, count, total, cfg, request, events, applied, overwrote,
             batches>>

-----------------------------------------------------------------------------
(* Bounds of the model *)

\* longest App.files the UI is allowed to build
MaxFiles == 2
\* number of batches the user starts
MaxBatches == 1
\* longest argument list of a direct call of collect_heic_files
MaxInputs == 2
\* largest numeric suffix among the files that exist before a direct call
\* of safe_output_path
MaxPre == 3

-----------------------------------------------------------------------------
(* Paths *)

None == "None"

P(d, n) == [dir |-> d, name |-> n]

Last(s) == s[Len(s)]

Front(s) == SubSeq(s, 1, Len(s) - 1)

ExtTokens == {".heic", ".heif", ".HEIC", ".HEIF", ".Heic", ".txt", ".png", ".jpg"}

\* str.lower on an extension
Lower(ext) ==
    CASE ext \in {".heic", ".HEIC", ".Heic"} -> ".heic"
      [] ext \in {".heif", ".HEIF"} -> ".heif"
      [] OTHER -> ext

\* Path.suffix
suffix(p) ==
    IF Len(p.name) > 1 /\ Last(p.name) \in ExtTokens THEN Last(p.name) ELSE ""

\* Path.stem
stem(p) ==
    IF Len(p.name) > 1 /\ Last(p.name) \in ExtTokens THEN Front(p.name) ELSE p.name

\* f"_{idx}"
Suffix(idx) == "_" \o ToString(idx)

-----------------------------------------------------------------------------
(* The source tree the user picks from.  It does not change. *)

a_heic == P("d1", <<"a", ".heic">>)
a_HEIC == P("d1", <<"a", ".HEIC">>)
b_Heic == P("d1", <<"b", ".Heic">>)
n_txt == P("d1", <<"n", ".txt">>)
a_1_heif == P("d1/s", <<"a", "_1", ".heif">>)
l_heic == P("d2", <<"l", ".heic">>)
loop_heic == P("d3", <<"loop", ".heic">>)
missing_heic == P("d2", <<"zz", ".heic">>)

\* directory entries in the order os.scandir lists them
TreeEntries == <<a_heic, a_HEIC, b_Heic, n_txt, a_1_heif, l_heic, loop_heic>>

TreeDirs == {"d1", "d1/s", "d2", "d3"}

DirPath(d) == P(d, <<>>)

\* l.heic is a symbolic link to d1/a.heic, loop.heic a link to itself
SymLinks == {l_heic}

SymLoops == {loop_heic}

RegularFiles == {a_heic, a_HEIC, b_Heic, n_txt, a_1_heif}

\* the directory x is d or lies below d
DirUnder(x, d) == x = d \/ (x = "d1/s" /\ d = "d1")

\* the path with its symbolic links followed (os.path.realpath)
Resolved(p) == IF p \in SymLinks THEN a_heic ELSE p

\* Path.is_dir
is_dir(p) == p.name = <<>> /\ p.dir \in TreeDirs

\* Path.is_file on a path of the source tree: follows links, False on a
\* dangling or looping link
is_file(p) == p \in RegularFiles \/ p \in SymLinks

\* Path.exists
exists(p) == p \in fs \/ is_file(p) \/ is_dir(p)

\* Path.rglob("*" + ext): every entry below d whose name ends in ext, whatever
\* its kind; fnmatch is case-sensitive here
Matches(e, d, ext) == DirUnder(e.dir, d) /\ Len(e.name) > 0 /\ Last(e.name) = ext

RECURSIVE rglobFrom(_, _, _)
rglobFrom(i, d, ext) ==
    IF i > Len(TreeEntries) THEN <<>>
    ELSE (IF Matches(TreeEntries[i], d, ext) THEN <<TreeEntries[i]>> ELSE <<>>)
         \o rglobFrom(i + 1, d, ext)

rglob(d, ext) == rglobFrom(1, d, ext)

-----------------------------------------------------------------------------
(* collect_heic_files *)

SUPPORTED_EXTS == {".heic", ".heif", ".HEIC", ".HEIF"}

\* the orders in which `for ext in SUPPORTED_EXTS` can visit the set
ExtOrders ==
    {o \in [1..4 -> SUPPORTED_EXTS] : \A i, j \in 1..4 : i # j => o[i] # o[j]}

RECURSIVE GlobAll(_, _, _)
GlobAll(p, order, i) ==
    IF i > Len(order) THEN <<>>
    ELSE rglob(p.dir, order[i]) \o GlobAll(p, order, i + 1)

\* the first loop: files.extend(...) / files.append(p)
RECURSIVE Expand(_, _)
Expand(paths, order) ==
    IF paths = <<>> THEN <<>>
    ELSE LET p == Head(paths)
             got == IF is_dir(p) THEN GlobAll(p, order, 1)
                    ELSE IF is_file(p) /\ suffix(p) \in SUPPORTED_EXTS THEN <<p>>
                    ELSE <<>>
         IN got \o Expand(Tail(paths), order)

InSeq(x, s) == \E i \in 1..Len(s) : s[i] = x

\* the second loop: keep f unless it is in seen (Path equality)
RECURSIVE Uniq(_, _)
Uniq(fl, uniq) ==
    IF fl = <<>> THEN uniq
    ELSE Uniq(Tail(fl), IF InSeq(Head(fl), uniq) THEN uniq ELSE Append(uniq, Head(fl)))

collect_heic_files(paths, order) == Uniq(Expand(paths, order), <<>>)

-----------------------------------------------------------------------------
(* safe_output_path *)

\* dir_ / f"{base}{out_ext}" for idx = 0, dir_ / f"{base}_{idx}{out_ext}" otherwise
Candidate(src, od, out_ext, idx) ==
    P(IF od # None THEN od ELSE src.dir,
      stem(src) \o (IF idx = 0 THEN <<>> ELSE <<Suffix(idx)>>) \o <<out_ext>>)

\* the loop with `if` in place of `while`: one retry only
sop_loop_once(candidate, src, od, out_ext, idx) ==
    IF exists(candidate) THEN Candidate(src, od, out_ext, idx) ELSE candidate

RECURSIVE sop_loop(_, _, _, _, _)
sop_loop(candidate, src, od, out_ext, idx) ==
    IF exists(candidate)
    THEN sop_loop(Candidate(src, od, out_ext, idx), src, od, out_ext, idx + 1)
    ELSE candidate

\* the function without its loop: the first candidate, existing or not
safe_output_path_unchecked(src, od, out_ext) == Candidate(src, od, out_ext, 0)

safe_output_path(src, od, out_ext) ==
    sop_loop(Candidate(src, od, out_ext, 0), src, od, out_ext, 1)

-----------------------------------------------------------------------------
(* State after App.__init__, before any batch *)

Variants == {"heic_batch_converter", "heic_converter_app"}

\* a file that already lies where the first output of d1/a.heic would go
PreExisting == {P("d1", <<"a", ".png">>)}

\* what the user of the application has at hand: two files with the same
\* stem and a file that is not an image, or a file and a directory that
\* holds a symbolic link loop
PickSets == {{a_heic, a_HEIC, n_txt}, {a_heic, DirPath("d3")}}

AppInit ==
    /\ variant \in Variants
    /\ picks \in PickSets
    /\ files = <<>>
    /\ out_dir = None
    /\ start_btn = "normal"
    /\ progress_value = 0
    /\ progress_max = 100
    /\ pc = "idle"
    /\ it = 0
    /\ count = 0
    /\ total = 0
    /\ cfg = [out_dir |-> None, fmt |-> "PNG"]
    /\ request = <<>>
    /\ events = <<>>
    /\ applied = 0
    /\ overwrote = FALSE
    /\ batches = 0

-----------------------------------------------------------------------------
(* Direct calls of the two utility functions *)

SeqsUpTo(S, n) == UNION {[1..k -> S] : k \in 0..n}

\* what a caller can pass: directories, entries of the tree, a path that
\* does not exist
InputPaths ==
    {DirPath(d) : d \in TreeDirs}
    \cup {TreeEntries[i] : i \in 1..Len(TreeEntries)}
    \cup {missing_heic}

InitCollect ==
    /\ AppInit
    /\ fs = {}
    /\ rets = <<>>
    /\ \E ps \in SeqsUpTo(InputPaths, MaxInputs), o \in ExtOrders :
          call = [fn |-> "collect_heic_files", paths |-> ps, order |-> o]

CollectCall ==
    /\ call.fn = "collect_heic_files"
    /\ rets = <<>>
    /\ rets' = <<collect_heic_files(call.paths, call.order)>>
    /\ UNCHANGED <<appVars, fs, call>>

SpecCollect == InitCollect /\ [][CollectCall]_vars

PathSources == {a_heic, a_HEIC, a_1_heif}

OutDirs == {"out"}

InitPath ==
    /\ AppInit
    /\ rets = <<>>
    /\ \E src \in PathSources, od \in {None} \cup OutDirs, ext \in {".png", ".jpg"} :
          /\ call = [fn |-> "safe_output_path", src |-> src, out_dir |-> od,
                     out_ext |-> ext]
          /\ fs \in SUBSET {Candidate(src, od, ext, k) : k \in 0..MaxPre}

\* safe_output_path(src, out_dir, out_ext), recorded with the disk content it
\* ran against; the second call follows the creation of the path the first
\* one returned
PathCall ==
    /\ call.fn = "safe_output_path"
    /\ \/ rets = <<>>
       \/ Len(rets) = 1 /\ rets[1].ret \in fs
    /\ rets' = Append(rets, [ret |-> safe_output_path(call.src, call.out_dir,
                                                       call.out_ext),
                             disk |-> fs])
    /\ UNCHANGED <<appVars, fs, call>>

\* the caller creates the returned path
PathMaterialize ==
    /\ call.fn = "safe_output_path"
    /\ Len(rets) = 1
    /\ rets[1].ret \notin fs
    /\ fs' = fs \cup {rets[1].ret}
    /\ UNCHANGED <<appVars, call, rets>>

NextPath == PathCall \/ PathMaterialize

SpecPath == InitPath /\ [][NextPath]_vars

-----------------------------------------------------------------------------
(* ConverterThread.run *)

\* log_cb(msg): kind is "start", "warning", "success" or "error"
LogEv(kind, src) == [type |-> "log", kind |-> kind, src |-> src]

\* progress_cb(count, total)
ProgressEv(done, tot) == [type |-> "progress", done |-> done, total |-> tot]

\* done_cb()
DoneEv == [type |-> "done"]

\* What the library calls made for one file do.  resolve: Path.resolve
\* (raises on a symbolic link loop before Python 3.13); path: the exists()
\* calls of safe_output_path; open: Image.open ("unidentified" is
\* UnidentifiedImageError); fallback: pillow_heif.open_heif and
\* Image.frombytes; seek: n_frames / im.seek(0); transpose:
\* ImageOps.exif_transpose; mkdir: out_path.parent.mkdir; save: im.save
\* ("partial": it raises and leaves the file it created).
AllEnvs ==
    [resolve : {"ok", "raise"}, path : {"ok", "raise"},
     open : {"ok", "unidentified", "error"}, fallback : {"ok", "error"},
     seek : {"ok", "raise"}, transpose : {"ok", "raise"},
     mkdir : {"ok", "raise"}, save : {"ok", "raise", "partial"}]

\* a call that is not reached is left at "ok"
Canonical(e) ==
    /\ e.resolve = "raise" =>
          e.path = "ok" /\ e.open = "ok" /\ e.seek = "ok" /\ e.transpose = "ok"
          /\ e.mkdir = "ok" /\ e.save = "ok"
    /\ e.path = "raise" =>
          e.open = "ok" /\ e.seek = "ok" /\ e.transpose = "ok" /\ e.mkdir = "ok"
          /\ e.save = "ok"
    /\ e.open # "unidentified" => e.fallback = "ok"
    /\ (e.open = "error" \/ e.fallback = "error") =>
          e.seek = "ok" /\ e.transpose = "ok" /\ e.mkdir = "ok" /\ e.save = "ok"
    /\ e.mkdir = "raise" => e.save = "ok"

Faults(e) ==
    Cardinality({f \in DOMAIN e : e[f] # "ok"})

\* the cases the model runs: at most one call fails for a file, or both
\* decoders fail
Envs ==
    {e \in AllEnvs :
        /\ Canonical(e)
        /\ \/ Faults(e) <= 1
           \/ Faults(e) = 2 /\ e.open = "unidentified" /\ e.fallback = "error"}

\* a link loop cannot be opened, and only a link loop makes resolve raise
EnvFor(src, e) ==
    /\ src \in SymLoops => e.resolve = "raise" \/ e.open = "error"
    /\ src \notin SymLoops => e.resolve = "ok"

out_ext(fmt) == IF fmt = "PNG" THEN ".png" ELSE ".jpg"

\* the image is open: Image.open, or open_image_any with its fallback
Decoded(v, e) ==
    IF v = "heic_converter_app"
    THEN e.open = "ok" \/ (e.open = "unidentified" /\ e.fallback = "ok")
    ELSE e.open = "ok"

\* the warnings of the two inner try blocks; the basic variant logs none
Warnings(v, src, e) ==
    IF v = "heic_converter_app"
    THEN (IF e.seek = "raise" THEN <<LogEv("warning", src)>> ELSE <<>>)
         \o (IF e.transpose = "raise" THEN <<LogEv("warning", src)>> ELSE <<>>)
    ELSE <<>>

\* an exception reaches the except clause before im.save is called
FailsBeforeSave(v, e) ==
    \/ e.path = "raise"
    \/ ~Decoded(v, e)
    \/ v = "heic_batch_converter" /\ e.transpose = "raise"
    \/ e.mkdir = "raise"

\* the log_cb calls of one loop iteration, in order
LogEvents(v, src, e) ==
    (IF v = "heic_converter_app" THEN <<LogEv("start", src)>> ELSE <<>>)
    \o (IF e.path = "ok" /\ Decoded(v, e) THEN Warnings(v, src, e) ELSE <<>>)
    \o (IF ~FailsBeforeSave(v, e) /\ e.save = "ok"
        THEN <<LogEv("success", src)>>
        ELSE <<LogEv("error", src)>>)

\* the progress callback made before the file is handled
IterEvents_progress_first(v, src, e, done, tot) ==
    <<ProgressEv(done, tot)>> \o LogEvents(v, src, e)

\* the callbacks of one loop iteration: the try block, then finally
IterEvents(v, src, e, done, tot) ==
    LogEvents(v, src, e) \o <<ProgressEv(done, tot)>>

\* abs_src = str(Path(src).resolve()) stands before the try block
Escapes(v, e) == v = "heic_converter_app" /\ e.resolve = "raise"

\* run, first statements: total = len(self.files); count = 0
run_begin ==
    /\ pc = "started"
    /\ total' = Len(files)
    /\ count' = 0
    /\ it' = 0
    /\ pc' = "running"
    /\ UNCHANGED <<variant, picks, files, out_dir, start_btn, progress_value, progress_max,
                   fs, cfg, request, events, applied, overwrote, batches, call, rets>>

\* one iteration of `for src in self.files`: the list iterator reads the
\* shared list at its index, then the body runs on src
run_iter ==
    /\ pc = "running"
    /\ it < Len(files)
    /\ \E e \in Envs :
          LET src == files[it + 1]
              out_path == safe_output_path(src, cfg.out_dir, out_ext(cfg.fmt))
          IN /\ EnvFor(src, e)
             /\ it' = it + 1
             /\ IF Escapes(variant, e)
                THEN /\ pc' = "crashed"
                     /\ UNCHANGED <<count, events, fs, overwrote>>
                ELSE /\ pc' = pc
                     /\ count' = count + 1
                     /\ events' = events
                           \o IterEvents(variant, src, e, count + 1, total)
                     /\ overwrote' =
                           IF FailsBeforeSave(variant, e) THEN overwrote
                           ELSE overwrote \/ exists(out_path)
                     /\ fs' = IF ~FailsBeforeSave(variant, e)
                                 /\ e.save \in {"ok", "partial"}
                              THEN fs \cup {out_path} ELSE fs
    /\ UNCHANGED <<variant, picks, files, out_dir, start_btn, progress_value, progress_max,
                   total, cfg, request, applied, batches, call, rets>>

\* the iterator is exhausted: self.done_cb()
run_end ==
    /\ pc = "running"
    /\ it >= Len(files)
    /\ events' = Append(events, DoneEv)
    /\ pc' = "finished"
    /\ UNCHANGED <<variant, picks, files, out_dir, start_btn, progress_value, progress_max,
                   fs, it, count, total, cfg, request, applied, overwrote, batches,
                   call, rets>>

-----------------------------------------------------------------------------
(* One file: the body of the loop of ConverterThread.run *)

Absent == "absent"

\* truth value of a bytes object or None, as in `if icc:`
Present(b) == b \notin {None, ""}

\* EXIF blocks: "exif_rot" carries an Orientation tag other than 1, "exif"
\* carries none
ExifBlocks == {"exif", "exif_rot"}

\* what a source file holds: its EXIF block and its ICC profile
Images == [exif : {None, ""} \cup ExifBlocks, icc : {None, "", "icc"}]

\* the calls that can fail, in the order run makes them for one file
Calls(v, e) ==
    (IF v = "heic_converter_app" THEN <<"resolve">> ELSE <<>>)
    \o (IF Escapes(v, e) THEN <<>>
        ELSE <<"safe_output_path">>
             \o (IF e.path = "raise" THEN <<>>
                 ELSE <<"Image.open">>
                      \o (IF v = "heic_converter_app" /\ e.open = "unidentified"
                          THEN <<"open_heif">> ELSE <<>>)
                      \o (IF ~Decoded(v, e) THEN <<>>
                          ELSE <<"seek", "exif_transpose">>
                               \o (IF v = "heic_batch_converter" /\ e.transpose = "raise"
                                   THEN <<>>
                                   ELSE <<"mkdir">>
                                        \o (IF e.mkdir = "raise" THEN <<>>
                                            ELSE <<"save">>)))))

\* hf.metadata of the container
HeifMetadata(img) ==
    <<[type |-> "XMP", data |-> "xmp"]>>
    \o (IF img.exif = None THEN <<>> ELSE <<[type |-> "Exif", data |-> img.exif]>>)

\* the scan of hf.metadata: data of the first entry of type exif that has data
RECURSIVE FirstExif(_)
FirstExif(md) ==
    IF md = <<>> THEN None
    ELSE IF Head(md).type \in {"Exif", "exif", "EXIF"} /\ Present(Head(md).data)
         THEN Head(md).data
         ELSE FirstExif(Tail(md))

\* the image in hand after the decode step with its info, and the variables
\* exif_bytes and icc of open_image_any (the basic variant reads them later)
Opened(v, img, e) ==
    IF v = "heic_converter_app" /\ e.open = "unidentified"
    THEN [im |-> [pixels |-> "stored", exif |-> None, icc |-> None],
          exif_bytes |-> FirstExif(HeifMetadata(img)),
          icc |-> IF Present(img.icc) THEN img.icc ELSE None]
    ELSE [im |-> [pixels |-> "stored", exif |-> img.exif, icc |-> img.icc],
          exif_bytes |-> img.exif,
          icc |-> img.icc]

\* ImageOps.exif_transpose: rotates by the Orientation tag of im.info and
\* returns the image with the tag taken out of its EXIF block
exif_transpose(im) ==
    IF im.exif = "exif_rot"
    THEN [pixels |-> "transposed", exif |-> "exif", icc |-> im.icc]
    ELSE im

\* im after the two inner steps: a transform that raised leaves it as it was
Normalized(v, img, e) ==
    IF e.transpose = "raise" THEN Opened(v, img, e).im
    ELSE exif_transpose(Opened(v, img, e).im)

\* save_kwargs with every branch attaching what it holds
save_kwargs_attach_all(fmt, keep_exif, exif_bytes, icc) ==
    [optimize |-> TRUE, progressive |-> fmt = "JPEG",
     icc_profile |-> IF Present(icc) THEN icc ELSE Absent,
     exif |-> IF Present(exif_bytes) THEN exif_bytes ELSE Absent]

save_kwargs(fmt, keep_exif, exif_bytes, icc) ==
    IF fmt = "JPEG"
    THEN [optimize |-> TRUE, progressive |-> TRUE,
          icc_profile |-> IF Present(icc) THEN icc ELSE Absent,
          exif |-> IF keep_exif /\ Present(exif_bytes) THEN exif_bytes ELSE Absent]
    ELSE [optimize |-> TRUE, progressive |-> FALSE,
          icc_profile |-> Absent, exif |-> Absent]

\* the arguments of im.save: the basic variant reads exif and icc_profile
\* from im.info after exif_transpose, the diagnostic variant uses what
\* open_image_any returned
SaveArgs(v, fmt, keep_exif, img, e) ==
    LET im == Normalized(v, img, e)
    IN [pixels |-> im.pixels,
        kwargs |-> IF v = "heic_batch_converter"
                   THEN save_kwargs(fmt, keep_exif, im.exif, im.icc)
                   ELSE save_kwargs(fmt, keep_exif, Opened(v, img, e).exif_bytes,
                                    Opened(v, img, e).icc)]

\* how the iteration ends
Status(v, e) ==
    IF Escapes(v, e) THEN "escaped"
    ELSE IF ~FailsBeforeSave(v, e) /\ e.save = "ok" THEN "success"
    ELSE "error"

\* everything one iteration does for src; saves holds the arguments of the
\* call of im.save, if it is reached
Outcome(v, src, fmt, keep_exif, img, e) ==
    [calls |-> Calls(v, e),
     logs |-> IF Escapes(v, e) THEN <<>> ELSE LogEvents(v, src, e),
     status |-> Status(v, e),
     saves |-> IF Escapes(v, e) \/ FailsBeforeSave(v, e) THEN <<>>
               ELSE <<SaveArgs(v, fmt, keep_exif, img, e)>>]

ConvertSources == {a_heic, loop_heic}

CanonicalEnvs == {e \in AllEnvs : Canonical(e)}

InitConvert ==
    /\ AppInit
    /\ fs = PreExisting
    /\ rets = <<>>
    /\ \E src \in ConvertSources, fmt \in {"PNG", "JPEG"}, k \in BOOLEAN,
          img \in Images, e \in CanonicalEnvs :
          /\ EnvFor(src, e)
          /\ call = [fn |-> "convert", src |-> src, fmt |-> fmt, keep_exif |-> k,
                     img |-> img, env |-> e]

\* the body of the loop for call.src, from the try to the end of finally
ConvertCall ==
    /\ call.fn = "convert"
    /\ rets = <<>>
    /\ rets' = <<Outcome(variant, call.src, call.fmt, call.keep_exif, call.img,
                         call.env)>>
    /\ fs' = IF Status(variant, call.env) = "success"
                \/ (Status(variant, call.env) = "error"
                    /\ ~FailsBeforeSave(variant, call.env)
                    /\ call.env.save = "partial")
             THEN fs \cup {safe_output_path(call.src, cfg.out_dir, out_ext(call.fmt))}
             ELSE fs
    /\ UNCHANGED <<appVars, call>>

SpecConvert == InitConvert /\ [][ConvertCall]_vars

-----------------------------------------------------------------------------
(* App *)

\* the files of fl that are not in cur, appended to cur in order
RECURSIVE AppendNew(_, _)
AppendNew(cur, fl) ==
    IF fl = <<>> THEN cur
    ELSE AppendNew(IF InSeq(Head(fl), cur) THEN cur ELSE Append(cur, Head(fl)), Tail(fl))

\* what collect_heic_files can return for one path the user gives
Collectable ==
    [ps \in PickSets |-> {collect_heic_files(<<p>>, o) : p \in ps, o \in ExtOrders}]

\* add_paths(paths), reached from add_files, add_folder and _on_drop
add_paths ==
    \E got \in Collectable[picks] :
        LET new == AppendNew(files, got)
        IN /\ Len(new) <= MaxFiles
           /\ files' = new
           /\ UNCHANGED <<variant, picks, out_dir, start_btn, progress_value, progress_max,
                          fs, pc, it, count, total, cfg, request, events, applied,
                          overwrote, batches, call, rets>>

clear_list ==
    /\ files' = <<>>
    /\ UNCHANGED <<variant, picks, out_dir, start_btn, progress_value, progress_max, fs,
                   pc, it, count, total, cfg, request, events, applied, overwrote,
                   batches, call, rets>>

\* s without the positions in sel
RECURSIVE Without(_, _, _)
Without(s, sel, i) ==
    IF i > Len(s) THEN <<>>
    ELSE (IF i \in sel THEN <<>> ELSE <<s[i]>>) \o Without(s, sel, i + 1)

\* remove_selected: pops the selected rows, last one first
remove_selected ==
    \E sel \in SUBSET (1..Len(files)) :
        /\ sel # {}
        /\ files' = Without(files, sel, 1)
        /\ UNCHANGED <<variant, picks, out_dir, start_btn, progress_value, progress_max,
                       fs, pc, it, count, total, cfg, request, events, applied,
                       overwrote, batches, call, rets>>

choose_out_dir ==
    \E d \in OutDirs :
        /\ out_dir' = d
        /\ UNCHANGED <<variant, picks, files, start_btn, progress_value, progress_max, fs,
                       pc, it, count, total, cfg, request, events, applied,
                       overwrote, batches, call, rets>>

\* start without `self.start_btn.config(state="disabled")`
start_button_left_enabled ==
    /\ start_btn = "normal"
    /\ batches < MaxBatches
    /\ \E fmt \in {"PNG", "JPEG"} :
          IF files = <<>>
          THEN UNCHANGED vars
          ELSE /\ progress_value' = 0
               /\ progress_max' = Len(files)
               /\ cfg' = [out_dir |-> out_dir, fmt |-> fmt]
               /\ pc' = "started"
               /\ request' = files
               /\ events' = <<>>
               /\ applied' = 0
               /\ batches' = batches + 1
               /\ UNCHANGED <<variant, picks, files, out_dir, start_btn, fs, it, count,
                              total, overwrote, call, rets>>

\* start, the command of start_btn: it runs only while the button is enabled
start ==
    /\ start_btn = "normal"
    /\ batches < MaxBatches
    /\ \E fmt \in {"PNG", "JPEG"} :
          IF files = <<>>
          THEN UNCHANGED vars
          ELSE /\ start_btn' = "disabled"
               /\ progress_value' = 0
               /\ progress_max' = Len(files)
               /\ cfg' = [out_dir |-> out_dir, fmt |-> fmt]
               /\ pc' = "started"
               /\ request' = files
               /\ events' = <<>>
               /\ applied' = 0
               /\ batches' = batches + 1
               /\ UNCHANGED <<variant, picks, files, out_dir, fs, it, count, total,
                              overwrote, call, rets>>

\* the Tk main loop runs the next callback that root.after(0, ...) queued
run_after ==
    /\ applied < Len(events)
    /\ LET ev == events[applied + 1]
       IN /\ applied' = applied + 1
          /\ progress_value' = IF ev.type = "progress" THEN ev.done ELSE progress_value
          /\ start_btn' = IF ev.type = "done" THEN "normal" ELSE start_btn
    /\ UNCHANGED <<variant, picks, files, out_dir, progress_max, fs, pc, it, count, total,
                   cfg, request, events, overwrote, batches, call, rets>>

Init ==
    /\ AppInit
    /\ fs = PreExisting
    /\ call = [fn |-> "none"]
    /\ rets = <<>>

Next ==
    \/ add_paths
    \/ clear_list
    \/ remove_selected
    \/ choose_out_dir
    \/ start
    \/ run_after
    \/ run_begin
    \/ run_iter
    \/ run_end

Spec == Init /\ [][Next]_vars

-----------------------------------------------------------------------------
(* Properties of a batch (Spec) *)

IsProgress(ev) == ev.type = "progress"

IsLog(ev) == ev.type = "log"

IsTerminal(ev) == ev.type = "log" /\ ev.kind \in {"success", "error"}

ProgressEvents == SelectSeq(events, IsProgress)

TerminalLogs == SelectSeq(events, IsTerminal)

\* number of files of the batch: the list handed to ConverterThread
N == Len(request)

Started == pc \in {"started", "running", "finished", "crashed"}

\* C1 as stated: a run that found N files in its list emits exactly N
\* progress events, the i-th carrying (i, N), and the last counter is N.
C1_ProgressCounts ==
    pc \in {"running", "finished"} =>
        /\ Len(ProgressEvents) <= total
        /\ \A i \in 1..Len(ProgressEvents) :
              ProgressEvents[i].done = i /\ ProgressEvents[i].total = total
        /\ pc = "finished" => Len(ProgressEvents) = total

\* C2 as stated: no error raised while a file is handled leaves run, and
\* every file after a failed one is still processed.
C2_FailureIsolation ==
    /\ pc # "crashed"
    /\ pc = "finished" => Len(TerminalLogs) = N

\* C3 as stated: done_cb is called once, and only after the progress event
\* (N, N) of the last file, N being the total the run captured.
C3_DoneAfterLastProgress ==
    \A i \in 1..Len(events) :
        events[i].type = "done" =>
            /\ i = Len(events)
            /\ total > 0 => i > 1 /\ events[i - 1] = ProgressEv(total, total)

\* C4 as stated: every file of the batch has exactly one terminal log line,
\* success or error, and the lines are in input order.
C4_OneOutcomePerFile ==
    /\ Started => Len(TerminalLogs) <= N
    /\ \A k \in 1..Len(TerminalLogs) :
          k <= N => TerminalLogs[k].src = request[k]
    /\ pc = "finished" =>
          \A i \in 1..N :
              Cardinality({k \in 1..Len(TerminalLogs) :
                              TerminalLogs[k].src = request[i]}) = 1

\* C5 as stated: the worker iterates the list as it was when start was
\* invoked, whatever the UI does meanwhile: the files it reads, their number
\* and the total it captured are those of the request.
C5_RequestReadOnly ==
    /\ pc \in {"running", "finished"} => total = N
    /\ pc \in {"running", "finished", "crashed"} =>
          /\ it <= N
          /\ it < N /\ pc = "running" => it < Len(files) /\ files[it + 1] = request[it + 1]
    /\ pc = "finished" => it = N /\ count = N

\* C6: no save of a batch targets a path that existed when safe_output_path
\* was called for that file.
C6_NeverOverwrites == overwrote = FALSE

\* C6 witness: two sources with the same stem went to the same directory,
\* where a file of that name existed before the batch
C6_Witness ==
    /\ pc = "finished"
    /\ cfg = [out_dir |-> None, fmt |-> "PNG"]
    /\ {P("d1", <<"a", ".png">>), P("d1", <<"a", "_1", ".png">>),
        P("d1", <<"a", "_2", ".png">>)} \subseteq fs
    /\ \E i, j \in 1..Len(events) :
          /\ events[i] = LogEv("success", a_heic)
          /\ events[j] = LogEv("success", a_HEIC)

\* the progress events among the first i events
ProgressUpTo(i) == Cardinality({j \in 1..i : events[j].type = "progress"})

-----------------------------------------------------------------------------
(* Properties of App.start and of the notifications (Spec) *)

\* C11 as stated: a worker is created only for a list that is not empty, a
\* worker that runs iterates at least one file, and as long as no worker was
\* created there is no outcome, no progress event and no completion event.
C11_NoEmptyRun ==
    /\ Started => N > 0
    /\ pc = "finished" => it > 0 /\ Len(ProgressEvents) > 0
    /\ ~Started => events = <<>> /\ batches = 0

\* the worker of the current batch has called done_cb
DoneEmitted == InSeq(DoneEv, events)

\* the Tk main loop has run _finish, the handler on_done queued
DoneApplied == applied > 0 /\ events[applied] = DoneEv

\* the start button is disabled from the creation of a ConverterThread until
\* the main loop has run the completion handler that thread queued, which
\* is the last callback of the batch
ButtonGuardsWorker ==
    /\ (Started /\ ~DoneEmitted) => start_btn = "disabled"
    /\ (Started /\ ~DoneApplied) => start_btn = "disabled"
    /\ (Started /\ start_btn = "normal") =>
          /\ pc = "finished"
          /\ applied = Len(events)

\* a step that creates a ConverterThread is taken with the button enabled
\* and, when it is not the first, after the worker before it has called
\* done_cb and _finish has run
StartsAfterCompletion ==
    batches' # batches =>
        /\ start_btn = "normal"
        /\ start_btn' = "disabled"
        /\ Started => (pc = "finished" /\ DoneEmitted /\ DoneApplied)

AppliedProgress == SelectSeq(SubSeq(events, 1, applied), IsProgress)

\* C16 as stated: the main loop runs the callbacks in the order the worker
\* queued them, _finish after every log and progress update of the batch; the
\* value of the progress bar never decreases during a batch, never exceeds
\* the maximum start set, and equals it when _finish runs.
C16_OrderedUiUpdates ==
    Started =>
        /\ DoneApplied => applied = Len(events)
        /\ \A i, j \in 1..Len(AppliedProgress) :
              i < j => AppliedProgress[i].done <= AppliedProgress[j].done
        /\ progress_value =
              IF AppliedProgress = <<>> THEN 0 ELSE Last(AppliedProgress).done
        /\ progress_value <= progress_max
        /\ DoneApplied => progress_value = progress_max

-----------------------------------------------------------------------------
(* Properties of one file (SpecConvert) *)

HasConverted == call.fn = "convert" /\ rets # <<>>

Converted == rets[1]

IsWarning(ev) == ev.type = "log" /\ ev.kind = "warning"

WarningCount == Len(SelectSeq(Converted.logs, IsWarning))

\* the inner steps that raised for the file
InnerFailures ==
    (IF call.env.seek = "raise" THEN 1 ELSE 0)
    + (IF call.env.transpose = "raise" THEN 1 ELSE 0)

\* C12 as stated: when exif_transpose, or the selection of the first frame,
\* raises for a file, one warning is logged for it, run goes on to mkdir and
\* save with the image as it was, and the file is a Success when nothing else
\* fails.
C12_TransformFailureNonFatal ==
    (HasConverted /\ InSeq("exif_transpose", Converted.calls)) =>
        /\ WarningCount = InnerFailures
        /\ InSeq("mkdir", Converted.calls)
        /\ (call.env.transpose = "raise" /\ Converted.saves # <<>>) =>
              Converted.saves[1].pixels = "stored"
        /\ (call.env.mkdir = "ok" /\ call.env.save = "ok") =>
              Converted.status = "success"

\* the file failed in the decode step
DecodeFailed ==
    /\ Converted.status = "error"
    /\ Last(Converted.calls) \in {"Image.open", "open_heif"}

\* C13 as stated: the fallback decoder is called exactly when Image.open
\* raised the unrecognized-format error, a file whose fallback succeeds goes
\* on to the next steps, and a file that fails in the decode step ends with
\* its error line inside the loop.
C13_TwoStepDecode ==
    (HasConverted /\ InSeq("Image.open", Converted.calls)) =>
        /\ InSeq("open_heif", Converted.calls) <=> call.env.open = "unidentified"
        /\ (call.env.open = "unidentified" /\ call.env.fallback = "ok") =>
              ~DecodeFailed /\ InSeq("exif_transpose", Converted.calls)
        /\ DecodeFailed =>
              /\ call.env.open = "error"
                 \/ (call.env.open = "unidentified" /\ call.env.fallback = "error")
              /\ Last(Converted.logs) = LogEv("error", call.src)

\* C14: of the arguments of im.save, icc_profile is there exactly when the
\* format is JPEG and the file has ICC bytes, and it is those bytes; exif is
\* there exactly when the format is JPEG, keep_exif is set and the file has
\* EXIF bytes; a PNG is saved with neither.
C14_MetadataPolicy ==
    (HasConverted /\ Converted.saves # <<>>) =>
        LET kw == Converted.saves[1].kwargs
        IN /\ kw.icc_profile # Absent <=> (call.fmt = "JPEG" /\ Present(call.img.icc))
           /\ kw.icc_profile # Absent => kw.icc_profile = call.img.icc
           /\ kw.exif # Absent <=>
                 (call.fmt = "JPEG" /\ call.keep_exif /\ Present(call.img.exif))
           /\ kw.exif # Absent => kw.exif \in ExifBlocks
           /\ call.fmt = "PNG" => kw.icc_profile = Absent /\ kw.exif = Absent

\* C14 witness: a JPEG was saved with both blocks attached, keep_exif set
C14_Witness ==
    /\ HasConverted
    /\ call.fmt = "JPEG"
    /\ call.keep_exif
    /\ Converted.status = "success"
    /\ Converted.saves[1].kwargs.icc_profile = "icc"
    /\ Converted.saves[1].kwargs.exif \in ExifBlocks

\* C17 as stated: when exif_transpose has rotated the pixels and an EXIF
\* block is attached to the JPEG output, the block carries no Orientation
\* tag other than 1.
C17_OrientationOnce ==
    (/\ HasConverted
     /\ Converted.saves # <<>>
     /\ Converted.saves[1].pixels = "transposed"
     /\ Converted.saves[1].kwargs.exif # Absent) =>
        Converted.saves[1].kwargs.exif # "exif_rot"

-----------------------------------------------------------------------------
(* Properties of safe_output_path (SpecPath) *)

CallCandidate(k) == Candidate(call.src, call.out_dir, call.out_ext, k)

\* suffixes a call can reach: one per path on disk, plus one
SuffixRange(disk) == 0..(Cardinality(disk) + 1)

OnDisk(p, disk) == p \in disk \/ p \in RegularFiles \/ p \in SymLinks

\* p is the k-th path of the sequence and the first one not on disk
FirstFreeAt(p, k, disk) ==
    /\ p = CallCandidate(k)
    /\ ~OnDisk(p, disk)
    /\ \A j \in 0..(k - 1) : OnDisk(CallCandidate(j), disk)

ReturnsFirstFree ==
    \A i \in 1..Len(rets) :
        \E k \in SuffixRange(rets[i].disk) : FirstFreeAt(rets[i].ret, k, rets[i].disk)

\* C7 as stated: each call returns the first path of {base}{ext},
\* {base}_1{ext}, {base}_2{ext}, ... that does not exist, and the call that
\* follows the creation of the returned path returns the path with the next
\* suffix.
C7_NextSuffix ==
    call.fn = "safe_output_path" =>
        /\ ReturnsFirstFree
        /\ Len(rets) = 2 =>
              \E k \in SuffixRange(rets[1].disk) :
                  /\ rets[1].ret = CallCandidate(k)
                  /\ rets[2].ret = CallCandidate(k + 1)

\* C7 as amended: each call returns the first path of the sequence that does
\* not exist at the time of the call, and the call that follows the creation
\* of the returned path returns a different path, later in the sequence: the
\* first one after it that does not exist.
C7_FirstFree ==
    call.fn = "safe_output_path" =>
        /\ ReturnsFirstFree
        /\ Len(rets) = 2 =>
              /\ rets[2].ret # rets[1].ret
              /\ rets[2].disk = rets[1].disk \cup {rets[1].ret}
              /\ \E k1 \in SuffixRange(rets[1].disk), k2 \in SuffixRange(rets[2].disk) :
                    /\ rets[1].ret = CallCandidate(k1)
                    /\ rets[2].ret = CallCandidate(k2)
                    /\ k2 > k1
                    /\ \A j \in (k1 + 1)..(k2 - 1) : OnDisk(CallCandidate(j), rets[1].disk)

\* C7 witness: the first call returned {base}_1{ext} because {base}{ext}
\* existed, and the second one skipped the existing {base}_2{ext}
C7_Witness ==
    /\ call.fn = "safe_output_path"
    /\ Len(rets) = 2
    /\ CallCandidate(0) \in rets[1].disk
    /\ rets[1].ret = CallCandidate(1)
    /\ rets[2].ret = CallCandidate(3)

-----------------------------------------------------------------------------
(* Properties of collect_heic_files (SpecCollect) *)

Collected == rets[1]

HasCollected == call.fn = "collect_heic_files" /\ rets # <<>>

\* position of the first occurrence of x in s (0 when absent)
FirstIndex(x, s) ==
    IF InSeq(x, s) THEN CHOOSE i \in 1..Len(s) : s[i] = x /\ \A j \in 1..(i - 1) : s[j] # x
    ELSE 0

\* C9 as stated: the output holds no two entries with the same resolved
\* path, and its entries are in the order of their first occurrence in the
\* expanded input.
C9_NoDuplicateResolved ==
    HasCollected =>
        LET expanded == Expand(call.paths, call.order)
        IN /\ \A i, j \in 1..Len(Collected) :
                 i < j => Resolved(Collected[i]) # Resolved(Collected[j])
           /\ \A i, j \in 1..Len(Collected) :
                 i < j => FirstIndex(Collected[i], expanded)
                              < FirstIndex(Collected[j], expanded)
           /\ \A i \in 1..Len(Collected) : InSeq(Collected[i], expanded)

\* the entries below a directory, and the given files themselves, that the
\* claim takes to be candidates
GivenOrFound(paths) ==
    {paths[i] : i \in {n \in 1..Len(paths) : ~is_dir(paths[n]) /\ is_file(paths[n])}}
    \cup {TreeEntries[e] : e \in {n \in 1..Len(TreeEntries) :
             \E i \in 1..Len(paths) :
                 is_dir(paths[i]) /\ DirUnder(TreeEntries[n].dir, paths[i].dir)}}

\* C10 as stated: a file given directly or found below a given directory is
\* in the output exactly when its extension, letter case ignored, is heic or
\* heif; nothing else is.
C10_CaseInsensitive ==
    HasCollected =>
        {Collected[i] : i \in 1..Len(Collected)}
            = {f \in GivenOrFound(call.paths) : Lower(suffix(f)) \in {".heic", ".heif"}}

====
